---------------------------- MODULE Spec2Model ----------------------------
(***************************************************************************)
(* Model of the processing core of api-halakha.                            *)
(*                                                                         *)
(*   Spec        the batch orchestrator ProcessingService                  *)
(*               .process_halakhot_from_json with its retry loop           *)
(*               (_process_single_halakha_with_retry), the pipeline        *)
(*               stages of process_halakha_complete and the HTTP endpoint  *)
(*               that calls it.                                            *)
(*   SpecRunner  one invocation of OpenAIService._query_assistant: thread  *)
(*               creation, the polling loop _wait_on_run with its tool     *)
(*               sub-protocol, timeout and cancel, the response            *)
(*               extraction and the thread deletion.                       *)
(*   SpecSingle  one call of ProcessingService.process_halakha_complete    *)
(*               from the endpoint POST /halakhot/post, with the optional  *)
(*               lookup of the last uploaded image.                        *)
(*   SpecTools   one pass of _submit_tool_outputs_if_required over the     *)
(*               tool calls of a required action.                          *)
(*   SpecRunnerFair  SpecRunner with weak fairness of the query's steps,   *)
(*               for the termination of _wait_on_run.                      *)
(*   SpecJobs    the job API of endpoints/processing.py (process/start,    *)
(*               process/status, process/jobs) with its job_status_store   *)
(*               and background task, as written in the source, where the  *)
(*               whole block is commented out.                             *)
(*                                                                         *)
(* Time is counted in poll intervals.  Python indices are 0-based and are  *)
(* kept 0-based in the state; TLA+ sequences are 1-based, so position p of *)
(* a Python list is element p + 1 of the sequence that models it.          *)
(***************************************************************************)
EXTENDS Integers, Sequences, FiniteSets, TLC

\* ------------------------------------------------------------------ bounds
\* Number of entries of the JSON file of halakhot.
FileLen == 3
\* Largest max_retries a batch is started with (the endpoint allows 0..10).
MaxRetries == 1
\* Largest max_retries of the one-item batches that walk the backoff schedule
\* past its last delay.
MaxBackoffRetries == 6
\* The timeout of _wait_on_run, in poll intervals (the defaults are 3600 s and
\* 4 s).
Timeout == 2
\* Number of jobs started through the job API.
MaxJobs == 2
\* How many times the external run asks for tool outputs during one query.
MaxToolRounds == 2
\* Largest number of tool calls of one required action.
MaxToolCalls == 2

\* ------------------------------------------------------------- batch state
VARIABLES
    file,                 \* data/halakhot.json: [exists, entries]
    args,                 \* the arguments of process_halakhot_from_json
    bpc,                  \* position of the batch call
    halakhot_to_process,  \* the loaded range
    i,                    \* loop index of the batch loop (0-based)
    results,              \* the batch results dictionary
    attempt,              \* loop variable of the retry loop
    stage,                \* position inside one attempt
    retry_details,        \* retry_details of the item being processed
    processing_result,    \* outcome handed from the retry loop to the batch loop
    attempts_executed,    \* how many times the try body ran for the current item
    calls,                \* the stages the current attempt awaited: [stage, raised, add_day]
    sleeps,               \* every asyncio.sleep of the batch call, in order
    outcome,              \* what the batch call gave its caller: a report or an error
    response,             \* what the endpoint answered
    published             \* the calls of create_halakha_page that returned: [item, attempt]

batchVars == <<file, args, bpc, halakhot_to_process, i, results, attempt, stage,
               retry_details, processing_result, attempts_executed, calls, sleeps,
               outcome, response, published>>

\* ------------------------------------------------------------ runner state
VARIABLES
    qpc,              \* position of _query_assistant
    wpc,              \* position of the innermost _wait_on_run
    frames,           \* the active _wait_on_run calls, outermost first: [start]
    clock,            \* time.time(), in poll intervals
    run_valid,        \* whether run_thread is a run (and not a returned exception)
    run_ref,          \* [id, thread_id] of the run object the runner holds
    thread_created,   \* whether create_and_run created a thread
    ext_status,       \* the status the external system holds for the run
    run_status,       \* run.status of the run object the runner holds
    pending_outputs,  \* the outputs built for the pending tool calls
    required_calls,   \* the tool_call ids of the required action being answered
    tool_rounds,      \* how many required actions asked for tool outputs
    submissions,      \* the submit_tool_outputs requests accepted, in order
    cancels,          \* how many cancel requests were issued
    cancel_failed,    \* whether a cancel request failed
    timed_out,        \* whether a timeout check fired
    deletes,          \* how many thread deletions were issued
    thread_deleted,   \* whether a deletion succeeded
    responded_on,     \* run.status of the run handed to _get_assistant_response
    last_message,     \* what the message listing of _get_assistant_response gave
    qresult           \* what _query_assistant gave its caller

runnerVars == <<qpc, wpc, frames, clock, run_valid, run_ref, thread_created, ext_status,
                run_status, pending_outputs, required_calls, tool_rounds, submissions,
                cancels,
                cancel_failed, timed_out, deletes, thread_deleted, responded_on, last_message,
                qresult>>

\* ------------------------------------------- state of one single-item request
VARIABLES
    sargs,        \* the form of POST /halakhot/post: [schedule_days, last_img]
    storage,      \* what the Supabase bucket answers to the lookup
    spc,          \* position of process_halakha_complete
    image_url,    \* image_url of process_halakha_complete
    publication,  \* the call of _publish_to_notion_platform: [called, image_url, add_day]
    sresult       \* what process_halakha_complete gave the endpoint

singleVars == <<sargs, storage, spc, image_url, publication, sresult>>

\* ------------------------------------ state of one pass over the tool calls
VARIABLES
    tool_calls,   \* required_action.submit_tool_outputs.tool_calls
    outputs,      \* outputs of _submit_tool_outputs_if_required
    tpc           \* position of _submit_tool_outputs_if_required

toolVars == <<tool_calls, outputs, tpc>>

\* ------------------------------------------------- state of the job API
VARIABLES
    job_status_store,  \* job_status_store: job_id -> entry
    jpc,               \* position of each job's process_halakha_background
    job_error,         \* what the pipeline call of each job raised
    job_published,     \* the jobs whose pipeline call published a page
    deleted_in_flight, \* the jobs whose entry was deleted while their task ran
    last_read          \* what the last GET /process/status/{job_id} answered

jobVars == <<job_status_store, jpc, job_error, job_published, deleted_in_flight,
             last_read>>

vars == <<batchVars, runnerVars, singleVars, toolVars, jobVars>>

\* ------------------------------------------------------------ value shapes
NoIndex == -1

Min(a, b) == IF a < b THEN a ELSE b

\* An entry of the JSON file: "ok" has text, "blank" has a whitespace-only
\* text (truthy, so it is loaded, but it fails validation), "malformed" is
\* no dict or has an empty or missing "halakha" (it is not loaded).
EntryKinds == {"ok", "blank", "malformed"}

NoResult == [status |-> "none", index |-> NoIndex, scheduled_days |-> 0,
             attempts_made |-> 0, retry_details |-> <<>>,
             retries_exhausted |-> FALSE, exception_type |-> "none",
             reason |-> "none"]

NoReport == [processed_count |-> 0, success_count |-> 0, failed_count |-> 0,
             skipped_count |-> 0, notion_urls |-> <<>>, errors |-> <<>>,
             skipped_items |-> <<>>, processing_details |-> <<>>,
             start_index |-> 0, requested_limit |-> 0, actual_count |-> 0,
             schedule_days_start |-> 0, max_retries |-> 0, status |-> "none",
             fail_fast_triggered_at_index |-> NoIndex, success_rate |-> NoIndex,
             end_index |-> NoIndex, total_retries_used |-> 0,
             items_with_retries |-> 0]

\* An exception as the except clauses see it: its type, whether its text
\* contains "fail-fast", and whether it is the "Echec critique" wrapper.
NoError == [type |-> "none", fail_fast_text |-> FALSE, critical |-> FALSE]

NoOutcome == [kind |-> "none", report |-> NoReport, error |-> NoError]

NoResponse == [status_code |-> 0, has_report |-> FALSE, fail_fast_triggered |-> FALSE]

\* ------------------------------------------------------------- json_loader
\* load_all_halakhot: the well-formed entries, each with its index in the file.
RECURSIVE EnrichFrom(_, _)
EnrichFrom(entries, pos) ==
    IF pos > Len(entries) THEN <<>>
    ELSE IF entries[pos] = "malformed" THEN EnrichFrom(entries, pos + 1)
    ELSE <<[index |-> pos - 1, blank |-> entries[pos] = "blank"]>>
             \o EnrichFrom(entries, pos + 1)

load_all_halakhot(f) == EnrichFrom(f.entries, 1)

\* get_halakhot_range: [ok, items, error].
get_halakhot_range(f, start_index, limit) ==
    IF ~f.exists
    THEN [ok |-> FALSE, items |-> <<>>, error |-> "FileNotFoundError"]
    ELSE LET all_halakhot == load_all_halakhot(f)
             end_index == Min(start_index + limit, Len(all_halakhot))
         IN  IF start_index < 0 \/ limit <= 0 \/ start_index >= Len(all_halakhot)
             THEN [ok |-> FALSE, items |-> <<>>, error |-> "ValueError"]
             ELSE [ok |-> TRUE,
                   items |-> SubSeq(all_halakhot, start_index + 1, end_index),
                   error |-> "none"]

\* ------------------------------------------------- batch results dictionary
init_batch_results(start_index, requested_limit, actual_count, schedule_days, max_retries) ==
    [NoReport EXCEPT !.start_index = start_index,
                     !.requested_limit = requested_limit,
                     !.actual_count = actual_count,
                     !.schedule_days_start = schedule_days,
                     !.max_retries = max_retries,
                     !.status = "in_progress"]

\* Mutant: a failed outcome is not counted in processed_count.
update_batch_results_uncounted(res, pr) ==
    LET counted == IF pr.status = "success"
                   THEN [res EXCEPT !.processed_count = @ + 1]
                   ELSE res
        folded ==
            IF pr.status = "success"
            THEN [counted EXCEPT
                    !.success_count = @ + 1,
                    !.notion_urls = Append(@, [index |-> pr.index,
                                               scheduled_days |-> pr.scheduled_days])]
            ELSE [counted EXCEPT
                    !.failed_count = @ + 1,
                    !.errors = Append(@, [index |-> pr.index,
                                          exception_type |-> pr.exception_type])]
    IN  [folded EXCEPT !.processing_details = Append(@, pr)]

update_batch_results(res, pr) ==
    LET counted == [res EXCEPT !.processed_count = @ + 1]
        folded ==
            IF pr.status = "success"
            THEN [counted EXCEPT
                    !.success_count = @ + 1,
                    !.notion_urls = Append(@, [index |-> pr.index,
                                               scheduled_days |-> pr.scheduled_days])]
            ELSE [counted EXCEPT
                    !.failed_count = @ + 1,
                    !.errors = Append(@, [index |-> pr.index,
                                          exception_type |-> pr.exception_type])]
    IN  [folded EXCEPT !.processing_details = Append(@, pr)]

\* Mutant: the remaining items are added last first.
RECURSIVE add_skipped_halakhot_to_results_reversed(_, _, _)
add_skipped_halakhot_to_results_reversed(res, skipped_halakhot, reason) ==
    IF skipped_halakhot = <<>> THEN res
    ELSE LET h == skipped_halakhot[Len(skipped_halakhot)]
             one == [res EXCEPT
                       !.skipped_items = Append(@, [index |-> h.index, reason |-> reason]),
                       !.skipped_count = @ + 1,
                       !.processing_details =
                           Append(@, [NoResult EXCEPT !.status = "skipped",
                                                      !.index = h.index,
                                                      !.reason = reason])]
         IN  add_skipped_halakhot_to_results_reversed(
                 one, SubSeq(skipped_halakhot, 1, Len(skipped_halakhot) - 1), reason)

RECURSIVE add_skipped_halakhot_to_results(_, _, _)
add_skipped_halakhot_to_results(res, skipped_halakhot, reason) ==
    IF skipped_halakhot = <<>> THEN res
    ELSE LET h == Head(skipped_halakhot)
             one == [res EXCEPT
                       !.skipped_items = Append(@, [index |-> h.index, reason |-> reason]),
                       !.skipped_count = @ + 1,
                       !.processing_details =
                           Append(@, [NoResult EXCEPT !.status = "skipped",
                                                      !.index = h.index,
                                                      !.reason = reason])]
         IN  add_skipped_halakhot_to_results(one, Tail(skipped_halakhot), reason)

\* round(n / d * 100, 1) in tenths of a percent: Python rounds half to even.
RoundedRate(n, d) ==
    LET q == (n * 1000) \div d
        r == (n * 1000) % d
    IN  IF 2 * r > d \/ (2 * r = d /\ q % 2 = 1) THEN q + 1 ELSE q

RECURSIVE SumRetries(_)
SumRetries(details) ==
    IF details = <<>> THEN 0
    ELSE LET dt == Head(details)
         IN  (IF dt.status \in {"success", "failed"} /\ dt.attempts_made > 1
              THEN dt.attempts_made - 1 ELSE 0) + SumRetries(Tail(details))

calculate_retry_stats(details) ==
    [total_retries_used |-> SumRetries(details),
     items_with_retries |->
        Cardinality({p \in 1..Len(details) :
                        /\ details[p].status \in {"success", "failed"}
                        /\ details[p].attempts_made > 1})]

\* Mutant: the rate is computed from the failures.
finalize_batch_results_failures(res) ==
    LET treated_count == res.processed_count - res.skipped_count
        success_rate == IF treated_count > 0
                        THEN RoundedRate(res.failed_count, treated_count)
                        ELSE 0
        retry_stats == calculate_retry_stats(res.processing_details)
    IN  [res EXCEPT !.success_rate = success_rate,
                    !.end_index = res.start_index + res.actual_count - 1,
                    !.total_retries_used = retry_stats.total_retries_used,
                    !.items_with_retries = retry_stats.items_with_retries,
                    !.status = IF res.status # "failed_fast" THEN "completed"
                               ELSE res.status]

finalize_batch_results(res) ==
    LET treated_count == res.processed_count - res.skipped_count
        success_rate == IF treated_count > 0
                        THEN RoundedRate(res.success_count, treated_count)
                        ELSE 0
        retry_stats == calculate_retry_stats(res.processing_details)
    IN  [res EXCEPT !.success_rate = success_rate,
                    !.end_index = res.start_index + res.actual_count - 1,
                    !.total_retries_used = retry_stats.total_retries_used,
                    !.items_with_retries = retry_stats.items_with_retries,
                    !.status = IF res.status # "failed_fast" THEN "completed"
                               ELSE res.status]

\* ------------------------------------------ _process_single_halakha_with_retry
retry_delays == <<1, 2, 4, 8, 16>>

\* Mutant: the index into the schedule wraps around instead of being clamped.
RetryDelay_wrapping(a) == retry_delays[(a % Len(retry_delays)) + 1]

\* delay = retry_delays[min(attempt, len(retry_delays) - 1)]
RetryDelay(a) == retry_delays[Min(a, Len(retry_delays) - 1) + 1]

CurrentItem == halakhot_to_process[i + 1]

\* Mutant: the offset counts the items published so far.
current_schedule_days_published == args.schedule_days + results.success_count

\* current_schedule_days of the batch loop.
current_schedule_days == args.schedule_days + i

\* Mutant: a success reports its retries, not its attempts.
SuccessOutcome_retries ==
    [NoResult EXCEPT !.status = "success",
                     !.index = CurrentItem.index,
                     !.scheduled_days = current_schedule_days,
                     !.attempts_made = attempt,
                     !.retry_details = retry_details]

SuccessOutcome ==
    [NoResult EXCEPT !.status = "success",
                     !.index = CurrentItem.index,
                     !.scheduled_days = current_schedule_days,
                     !.attempts_made = attempt + 1,
                     !.retry_details = retry_details]

FailedOutcome(details, exception_type) ==
    [NoResult EXCEPT !.status = "failed",
                     !.index = CurrentItem.index,
                     !.exception_type = exception_type,
                     !.scheduled_days = current_schedule_days,
                     !.attempts_made = args.max_retries + 1,
                     !.retry_details = details,
                     !.retries_exhausted = TRUE]

\* Mutant: the loop gives up one attempt early.
OnAttemptException_early(exception_type) ==
    LET details == Append(retry_details,
                          [attempt |-> attempt + 1, exception_type |-> exception_type])
    IN  /\ retry_details' = details
        /\ IF attempt + 1 >= args.max_retries
           THEN /\ processing_result' = FailedOutcome(details, exception_type)
                /\ bpc' = "fold"
                /\ stage' = "none"
           ELSE /\ processing_result' = processing_result
                /\ bpc' = bpc
                /\ stage' = "backoff"
        /\ UNCHANGED <<attempt, sleeps>>

\* Mutant: the exception of the last attempt ends the function with no outcome.
OnAttemptException_unrecovered(exception_type) ==
    LET details == Append(retry_details,
                          [attempt |-> attempt + 1, exception_type |-> exception_type])
    IN  /\ retry_details' = details
        /\ IF attempt >= args.max_retries
           THEN /\ processing_result' = processing_result
                /\ bpc' = "fold"
                /\ stage' = "none"
           ELSE /\ processing_result' = processing_result
                /\ bpc' = bpc
                /\ stage' = "backoff"
        /\ UNCHANGED <<attempt, sleeps>>

\* The except clause of the retry loop: record the attempt, then either leave
\* the loop with the failed outcome or go to the backoff sleep.
OnAttemptException(exception_type) ==
    LET details == Append(retry_details,
                          [attempt |-> attempt + 1, exception_type |-> exception_type])
    IN  /\ retry_details' = details
        /\ IF attempt >= args.max_retries
           THEN /\ processing_result' = FailedOutcome(details, exception_type)
                /\ bpc' = "fold"
                /\ stage' = "none"
           ELSE /\ processing_result' = processing_result
                /\ bpc' = bpc
                /\ stage' = "backoff"
        /\ UNCHANGED <<attempt, sleeps>>

\* The exception class recorded for a failure of a service call:
\* OpenAIServiceError and NotionServiceError are both HalakhaAPIException, and
\* the model keeps that class; the validation raises ValueError.
ServiceError == "HalakhaAPIException"

\* Mutant: an empty content is failed at once, without retry.
Validate_nonretryable ==
    /\ bpc = "attempt" /\ stage = "validate"
    /\ attempts_executed' = attempts_executed + 1
    /\ UNCHANGED calls
    /\ IF CurrentItem.blank
       THEN /\ retry_details' = Append(retry_details,
                                       [attempt |-> attempt + 1,
                                        exception_type |-> "ValueError"])
            /\ processing_result' = FailedOutcome(retry_details', "ValueError")
            /\ bpc' = "fold"
            /\ stage' = "none"
            /\ UNCHANGED <<attempt, sleeps>>
       ELSE /\ stage' = "queries_halakha"
            /\ UNCHANGED <<retry_details, processing_result, bpc, attempt, sleeps>>
    /\ UNCHANGED <<published, file, args, halakhot_to_process, i, results, outcome, response>>
    /\ UNCHANGED <<runnerVars, singleVars, toolVars, jobVars>>

\* The head of the try body: the content validation.
Validate ==
    /\ bpc = "attempt" /\ stage = "validate"
    /\ attempts_executed' = attempts_executed + 1
    /\ UNCHANGED calls
    /\ IF CurrentItem.blank
       THEN OnAttemptException("ValueError")
       ELSE /\ stage' = "queries_halakha"
            /\ UNCHANGED <<retry_details, processing_result, bpc, attempt, sleeps>>
    /\ UNCHANGED <<published, file, args, halakhot_to_process, i, results, outcome, response>>
    /\ UNCHANGED <<runnerVars, singleVars, toolVars, jobVars>>

\* Mutant: the exception of a stage is swallowed and the next stage runs.
StageStep_swallow(here, next, exception_type) ==
    /\ bpc = "attempt" /\ stage = here
    /\ \E raised \in BOOLEAN :
          calls' = Append(calls, [stage |-> here, raised |-> raised,
                                 add_day |-> current_schedule_days])
    /\ stage' = next
    /\ UNCHANGED <<retry_details, processing_result, bpc, attempt, sleeps>>
    /\ UNCHANGED <<published, file, args, halakhot_to_process, i, results, attempts_executed,
                   outcome, response>>
    /\ UNCHANGED <<runnerVars, singleVars, toolVars, jobVars>>

\* One awaited stage of process_halakha_complete: it returns or it raises.
StageStep(here, next, exception_type) ==
    /\ bpc = "attempt" /\ stage = here
    /\ \/ /\ calls' = Append(calls, [stage |-> here, raised |-> FALSE,
                                 add_day |-> current_schedule_days])
          /\ stage' = next
          /\ UNCHANGED <<retry_details, processing_result, bpc, attempt, sleeps>>
       \/ /\ calls' = Append(calls, [stage |-> here, raised |-> TRUE,
                                 add_day |-> current_schedule_days])
          /\ OnAttemptException(exception_type)
    /\ UNCHANGED <<published, file, args, halakhot_to_process, i, results, attempts_executed,
                   outcome, response>>
    /\ UNCHANGED <<runnerVars, singleVars, toolVars, jobVars>>

QueriesHalakha == StageStep("queries_halakha", "post", ServiceError)

QueriesPost == StageStep("post", "legend", ServiceError)

QueriesLegend == StageStep("legend", "publish", ServiceError)

\* Mutant: the attempt raises after the page was created, and is retried.
PublishToNotion_then_raise ==
    /\ bpc = "attempt" /\ stage = "publish"
    /\ calls' = Append(calls, [stage |-> "publish", raised |-> TRUE,
                              add_day |-> current_schedule_days])
    /\ \/ published' = Append(published, [item |-> i, attempt |-> attempt + 1])
       \/ UNCHANGED published
    /\ OnAttemptException(ServiceError)
    /\ UNCHANGED <<file, args, halakhot_to_process, i, results, attempts_executed,
                   outcome, response>>
    /\ UNCHANGED <<runnerVars, singleVars, toolVars, jobVars>>

\* _publish_to_notion_platform, and the success return of the attempt.
PublishToNotion ==
    /\ bpc = "attempt" /\ stage = "publish"
    /\ \/ /\ calls' = Append(calls, [stage |-> "publish", raised |-> FALSE,
                                 add_day |-> current_schedule_days])
          /\ published' = Append(published, [item |-> i, attempt |-> attempt + 1])
          /\ processing_result' = SuccessOutcome
          /\ bpc' = "fold"
          /\ stage' = "none"
          /\ UNCHANGED <<retry_details, attempt, sleeps>>
       \/ /\ calls' = Append(calls, [stage |-> "publish", raised |-> TRUE,
                                 add_day |-> current_schedule_days])
          /\ OnAttemptException(ServiceError)
          /\ UNCHANGED published
    /\ UNCHANGED <<file, args, halakhot_to_process, i, results, attempts_executed,
                   outcome, response>>
    /\ UNCHANGED <<runnerVars, singleVars, toolVars, jobVars>>

\* await asyncio.sleep(delay) before the next attempt.
RetrySleep ==
    /\ bpc = "attempt" /\ stage = "backoff"
    /\ sleeps' = Append(sleeps, [kind |-> "backoff",
                                 seconds |-> RetryDelay(attempt),
                                 item |-> i])
    /\ attempt' = attempt + 1
    /\ calls' = <<>>
    /\ stage' = "validate"
    /\ UNCHANGED <<published, file, args, bpc, halakhot_to_process, i, results, retry_details,
                   processing_result, attempts_executed, outcome, response>>
    /\ UNCHANGED <<runnerVars, singleVars, toolVars, jobVars>>

\* ------------------------------------------------ process_halakhot_from_json
FailFastError == [type |-> "RuntimeError", fail_fast_text |-> TRUE, critical |-> FALSE]

\* Mutant: the fail-fast error is wrapped like any other exception.
BatchExcept_wrap_all(e) ==
    [type |-> "RuntimeError", fail_fast_text |-> e.fail_fast_text, critical |-> TRUE]

\* except Exception as e, at the end of process_halakhot_from_json: what is
\* raised to the caller for an exception e of the try body.
BatchExcept(e) ==
    IF e.type = "RuntimeError" /\ e.fail_fast_text
    THEN e
    ELSE [type |-> "RuntimeError", fail_fast_text |-> e.fail_fast_text, critical |-> TRUE]

\* The call up to the first item: load the range, initialise the results.
LoadRange ==
    /\ bpc = "call"
    /\ LET loaded == get_halakhot_range(file, args.start_index, args.limit_halakhot)
       IN  IF loaded.ok
           THEN /\ halakhot_to_process' = loaded.items
                /\ results' = init_batch_results(args.start_index, args.limit_halakhot,
                                                 Len(loaded.items), args.schedule_days,
                                                 args.max_retries)
                /\ bpc' = "item"
                /\ UNCHANGED outcome
           ELSE /\ outcome' = [kind |-> "raised", report |-> NoReport,
                               error |-> BatchExcept([type |-> loaded.error,
                                                      fail_fast_text |-> FALSE,
                                                      critical |-> FALSE])]
                /\ bpc' = "raised"
                /\ UNCHANGED <<halakhot_to_process, results>>
    /\ UNCHANGED <<published, file, args, i, attempt, stage, retry_details, processing_result,
                   attempts_executed, sleeps, response>>
    /\ UNCHANGED calls
    /\ UNCHANGED <<runnerVars, singleVars, toolVars, jobVars>>

\* The head of one loop iteration and the entry of the retry function.
BeginItem ==
    /\ bpc = "item"
    /\ bpc' = "attempt"
    /\ attempt' = 0
    /\ stage' = "validate"
    /\ retry_details' = <<>>
    /\ attempts_executed' = 0
    /\ calls' = <<>>
    /\ processing_result' = NoResult
    /\ UNCHANGED <<published, file, args, halakhot_to_process, i, results, sleeps, outcome, response>>
    /\ UNCHANGED <<runnerVars, singleVars, toolVars, jobVars>>

\* Mutant: the fail-fast test ignores fail_fast_on_max_retries.
FailFastTriggered_always(pr) ==
    /\ pr.status = "failed"
    /\ pr.retries_exhausted

\* Mutant: an exhausted item never stops the batch.
FailFastTriggered_never(pr) == FALSE

\* The fail-fast test of the batch loop.
FailFastTriggered(pr) ==
    /\ pr.status = "failed"
    /\ pr.retries_exhausted
    /\ args.fail_fast_on_max_retries

\* Mutant: the slice of the remaining items starts one item too late.
FailFastResults_late(res, pr) ==
    LET remaining_halakhot == SubSeq(halakhot_to_process, i + 3, Len(halakhot_to_process))
        skipped == add_skipped_halakhot_to_results(res, remaining_halakhot,
                                                   "skipped_due_to_fail_fast")
    IN  [skipped EXCEPT !.status = "failed_fast",
                        !.fail_fast_triggered_at_index = pr.index]

\* The results at the raise of the fail-fast error.
FailFastResults(res, pr) ==
    LET remaining_halakhot == SubSeq(halakhot_to_process, i + 2, Len(halakhot_to_process))
        skipped == add_skipped_halakhot_to_results(res, remaining_halakhot,
                                                   "skipped_due_to_fail_fast")
    IN  [skipped EXCEPT !.status = "failed_fast",
                        !.fail_fast_triggered_at_index = pr.index]

\* Mutant: the fail-fast marks the results but the loop goes on.
FoldOutcome_soft ==
    /\ bpc = "fold"
    /\ LET folded == update_batch_results(results, processing_result)
           marked == IF FailFastTriggered(processing_result)
                     THEN FailFastResults(folded, processing_result)
                     ELSE folded
       IN  IF i < Len(halakhot_to_process) - 1
           THEN /\ results' = marked
                /\ bpc' = "pause"
                /\ UNCHANGED outcome
           ELSE /\ results' = finalize_batch_results(marked)
                /\ outcome' = [kind |-> "returned",
                               report |-> finalize_batch_results(marked),
                               error |-> NoError]
                /\ bpc' = "returned"
    /\ UNCHANGED <<published, file, args, halakhot_to_process, i, attempt, stage, retry_details,
                   processing_result, attempts_executed, sleeps, response>>
    /\ UNCHANGED calls
    /\ UNCHANGED <<runnerVars, singleVars, toolVars, jobVars>>

\* The rest of a loop iteration once the retry function has returned: fold the
\* outcome, then abort on fail-fast, or pause before the next item, or leave the
\* loop, finalise and return.
FoldOutcome ==
    /\ bpc = "fold"
    /\ LET folded == update_batch_results(results, processing_result)
       IN  IF FailFastTriggered(processing_result)
           THEN /\ results' = FailFastResults(folded, processing_result)
                /\ outcome' = [kind |-> "raised", report |-> NoReport,
                               error |-> BatchExcept(FailFastError)]
                /\ bpc' = "raised"
           ELSE IF i < Len(halakhot_to_process) - 1
           THEN /\ results' = folded
                /\ bpc' = "pause"
                /\ UNCHANGED outcome
           ELSE /\ results' = finalize_batch_results(folded)
                /\ outcome' = [kind |-> "returned",
                               report |-> finalize_batch_results(folded),
                               error |-> NoError]
                /\ bpc' = "returned"
    /\ UNCHANGED <<published, file, args, halakhot_to_process, i, attempt, stage, retry_details,
                   processing_result, attempts_executed, sleeps, response>>
    /\ UNCHANGED calls
    /\ UNCHANGED <<runnerVars, singleVars, toolVars, jobVars>>

\* Mutant: the next iteration starts without the sleep.
Pause_none ==
    /\ bpc = "pause"
    /\ i' = i + 1
    /\ bpc' = "item"
    /\ UNCHANGED <<published, file, args, halakhot_to_process, results, attempt, stage, sleeps,
                   retry_details, processing_result, attempts_executed, outcome, response>>
    /\ UNCHANGED calls
    /\ UNCHANGED <<runnerVars, singleVars, toolVars, jobVars>>

\* await asyncio.sleep(2) between two items, then the next iteration.
Pause ==
    /\ bpc = "pause"
    /\ sleeps' = Append(sleeps, [kind |-> "pause", seconds |-> 2, item |-> i])
    /\ i' = i + 1
    /\ bpc' = "item"
    /\ UNCHANGED <<published, file, args, halakhot_to_process, results, attempt, stage,
                   retry_details, processing_result, attempts_executed, outcome, response>>
    /\ UNCHANGED calls
    /\ UNCHANGED <<runnerVars, singleVars, toolVars, jobVars>>

\* ------------------------------------------- endpoint POST /batch/halakhot
EndpointResponse(o) ==
    IF o.kind = "returned"
    THEN [status_code |-> 201, has_report |-> TRUE,
          fail_fast_triggered |-> o.report.status = "failed_fast"]
    ELSE IF o.error.type = "RuntimeError" /\ o.error.fail_fast_text
    THEN [status_code |-> 409, has_report |-> FALSE, fail_fast_triggered |-> FALSE]
    ELSE [status_code |-> 500, has_report |-> FALSE, fail_fast_triggered |-> FALSE]

EndpointRespond ==
    /\ bpc \in {"returned", "raised"}
    /\ response' = EndpointResponse(outcome)
    /\ bpc' = "responded"
    /\ UNCHANGED <<published, file, args, halakhot_to_process, i, results, attempt, stage,
                   retry_details, processing_result, attempts_executed, sleeps, outcome>>
    /\ UNCHANGED calls
    /\ UNCHANGED <<runnerVars, singleVars, toolVars, jobVars>>

\* ------------------------------------------------------- inputs of a batch
Files ==
    {[exists |-> FALSE, entries |-> <<>>]} \cup
    {[exists |-> TRUE, entries |-> e] : e \in [1..FileLen -> EntryKinds]}

\* The endpoint's Form validation: start_index >= 0, 1 <= limit_halakhot <= 50,
\* 0 <= schedule_days <= 365, 0 <= max_retries <= 10.  Batches of every range
\* with few retries, the batch of three items with max_retries = 3 and
\* fail-fast, and batches of one item with many retries.
Args ==
    [start_index : 0..FileLen,
     limit_halakhot : 1..FileLen,
     schedule_days : {0, 2},
     max_retries : 0..MaxRetries,
     fail_fast_on_max_retries : BOOLEAN]
    \cup
    {[start_index |-> 0, limit_halakhot |-> 3, schedule_days |-> 0,
      max_retries |-> 3, fail_fast_on_max_retries |-> TRUE]}
    \cup
    [start_index : {0},
     limit_halakhot : {1},
     schedule_days : {0},
     max_retries : (MaxRetries + 1)..MaxBackoffRetries,
     fail_fast_on_max_retries : BOOLEAN]

BatchInit ==
    /\ file \in Files
    /\ args \in Args
    /\ bpc = "call"
    /\ halakhot_to_process = <<>>
    /\ i = 0
    /\ results = NoReport
    /\ attempt = 0
    /\ stage = "none"
    /\ retry_details = <<>>
    /\ processing_result = NoResult
    /\ attempts_executed = 0
    /\ calls = <<>>
    /\ sleeps = <<>>
    /\ published = <<>>
    /\ outcome = NoOutcome
    /\ response = NoResponse

\* No batch call.
BatchIdle ==
    /\ file = [exists |-> FALSE, entries |-> <<>>]
    /\ args = [start_index |-> 0, limit_halakhot |-> 1, schedule_days |-> 0,
               max_retries |-> 0, fail_fast_on_max_retries |-> TRUE]
    /\ bpc = "idle"
    /\ halakhot_to_process = <<>>
    /\ i = 0
    /\ results = NoReport
    /\ attempt = 0
    /\ stage = "none"
    /\ retry_details = <<>>
    /\ processing_result = NoResult
    /\ attempts_executed = 0
    /\ calls = <<>>
    /\ sleeps = <<>>
    /\ published = <<>>
    /\ outcome = NoOutcome
    /\ response = NoResponse

BatchNext ==
    \/ LoadRange
    \/ BeginItem
    \/ Validate
    \/ QueriesHalakha
    \/ QueriesPost
    \/ QueriesLegend
    \/ PublishToNotion
    \/ RetrySleep
    \/ FoldOutcome
    \/ Pause
    \/ EndpointRespond

\* ------------------------------------------------------------ OpenAIService
TerminalStatuses == {"completed", "failed", "cancelled", "expired"}

\* What the external system may report next for a run it holds in status s.
\* Terminal statuses are final; "cancelling" is reported only once a cancel
\* request was accepted.
NextStatuses(s) ==
    IF s \in TerminalStatuses THEN {s}
    ELSE IF s = "cancelling" THEN {"cancelling"} \cup TerminalStatuses
    ELSE {"queued", "in_progress", "requires_action"} \cup TerminalStatuses

\* OpenAIService.__init__ sets settings and client and no tool_functions, so
\* the lookup self.tool_functions[func_name] raises for every tool call.
ToolFunctionsDefined == FALSE

HandlerBehaviours == IF ToolFunctionsDefined THEN {"returns", "raises"} ELSE {"raises"}

\* Mutant: no try/except around the tool call.
HandlerCall_uncaught(behaviour) ==
    IF behaviour = "returns"
    THEN [propagates |-> FALSE, output |-> "handler_value"]
    ELSE [propagates |-> TRUE, output |-> "none"]

\* The try/except around one tool call in _submit_tool_outputs_if_required:
\* what it leaves in result, and whether an exception leaves the loop.
HandlerCall(behaviour) ==
    IF behaviour = "returns"
    THEN [propagates |-> FALSE, output |-> "handler_value"]
    ELSE [propagates |-> FALSE, output |-> "error_string"]

\* The tool_call ids of the r-th required action (r = 1, 2, ...) with n calls.
ToolCallIds(r, n) == [j \in 1..n |-> (r - 1) * MaxToolCalls + j]

\* Mutant: only the first tool call gets an output.
BuildOutputs_partial(ids, behaviours) ==
    [j \in 1..1 |-> [tool_call_id |-> ids[j],
                     output |-> HandlerCall(behaviours[j]).output,
                     handler |-> behaviours[j]]]

\* outputs of _submit_tool_outputs_if_required for the given tool calls, each
\* with the behaviour of its handler (kept beside the output as "handler").
BuildOutputs(ids, behaviours) ==
    [j \in 1..Len(ids) |-> [tool_call_id |-> ids[j],
                            output |-> HandlerCall(behaviours[j]).output,
                            handler |-> behaviours[j]]]

\* Mutant: no guard against an empty message on a completed run.
get_assistant_response_unguarded(status, message) ==
    IF status = "completed"
    THEN IF message = "api_error" THEN [returns |-> FALSE, error |-> "messages_error"]
         ELSE IF message = "missing"
         THEN [returns |-> FALSE, error |-> "empty_response"]
         ELSE [returns |-> TRUE, error |-> "none"]
    ELSE IF status = "failed" THEN [returns |-> FALSE, error |-> "run_failed"]
    ELSE IF status = "cancelled" THEN [returns |-> FALSE, error |-> "run_cancelled"]
    ELSE IF status = "expired" THEN [returns |-> FALSE, error |-> "run_expired"]
    ELSE [returns |-> FALSE, error |-> "unexpected_status"]

\* _get_assistant_response: [returns, error] for a run status and the latest
\* message ("text", "empty", "missing", or "api_error" when the listing raises).
get_assistant_response(status, message) ==
    IF status = "completed"
    THEN IF message = "api_error" THEN [returns |-> FALSE, error |-> "messages_error"]
         ELSE IF message \in {"missing", "empty"}
         THEN [returns |-> FALSE, error |-> "empty_response"]
         ELSE [returns |-> TRUE, error |-> "none"]
    ELSE IF status = "failed" THEN [returns |-> FALSE, error |-> "run_failed"]
    ELSE IF status = "cancelled" THEN [returns |-> FALSE, error |-> "run_cancelled"]
    ELSE IF status = "expired" THEN [returns |-> FALSE, error |-> "run_expired"]
    ELSE [returns |-> FALSE, error |-> "unexpected_status"]

NoQResult == [kind |-> "none", error |-> "none"]

\* The run and thread that create_and_run makes; retrieve and
\* submit_tool_outputs answer with the run they were asked for.
NoRun == [id |-> 0, thread_id |-> 0]

CreatedRun == [id |-> 1, thread_id |-> 1]

\* Mutant: the request is sent twice.
submit_tool_outputs_twice(accepted, tool_outputs) ==
    Append(Append(accepted, tool_outputs), tool_outputs)

\* The request of _submit_tool_outputs: one submit_tool_outputs call with all
\* the outputs.
submit_tool_outputs(accepted, tool_outputs) == Append(accepted, tool_outputs)

\* _cancel_run: the request inside try/except Exception; [raises, done].
cancel_run(api_result) == [raises |-> FALSE, done |-> api_result = "ok"]

\* Mutant: no try/except around the deletion request.
delete_thread_unguarded(api_result) ==
    [raises |-> api_result # "ok", done |-> api_result = "ok"]

\* _delete_thread: the request inside try/except Exception; [raises, done].
delete_thread(api_result) == [raises |-> FALSE, done |-> api_result = "ok"]

\* An exception leaves _wait_on_run (through every active call of it) or
\* _get_assistant_response: the except clause of _query_assistant logs it and
\* raises it again.
QueryRaises(error) ==
    /\ qresult' = [kind |-> "raised", error |-> error]
    /\ qpc' = "raised"
    /\ wpc' = "none"
    /\ frames' = <<>>

\* return run in _wait_on_run: the innermost call ends; the outermost one hands
\* the run to _query_assistant, an inner one returns through
\* _submit_tool_outputs into the loop of its caller, which continues.
ReturnFromWait ==
    /\ frames' = SubSeq(frames, 1, Len(frames) - 1)
    /\ IF Len(frames) = 1
       THEN qpc' = "respond" /\ wpc' = "none"
       ELSE qpc' = qpc /\ wpc' = "retrieve"
    /\ UNCHANGED qresult

\* _create_thread_and_run, and the entry of the outermost _wait_on_run.
CreateThreadAndRun ==
    /\ qpc = "create"
    /\ \/ /\ thread_created' = TRUE
          /\ run_valid' = TRUE
          /\ run_ref' = CreatedRun
          /\ ext_status' = "queued"
          /\ run_status' = "queued"
          /\ qpc' = "wait"
          /\ wpc' = "retrieve"
          /\ frames' = <<[start |-> clock]>>
          /\ UNCHANGED qresult
       \/ \* an OpenAIError: raised as OpenAIServiceError
          /\ QueryRaises("create_error")
          /\ UNCHANGED <<thread_created, run_valid, run_ref, ext_status, run_status>>
       \/ \* any other exception: it is returned as if it were the run
          /\ run_valid' = FALSE
          /\ qpc' = "wait"
          /\ wpc' = "retrieve"
          /\ frames' = <<[start |-> clock]>>
          /\ UNCHANGED <<thread_created, run_ref, ext_status, run_status, qresult>>
    /\ UNCHANGED <<clock, pending_outputs, required_calls, tool_rounds, submissions, cancels,
                   timed_out, deletes, thread_deleted, responded_on, last_message>>
    /\ UNCHANGED cancel_failed
    /\ UNCHANGED <<batchVars, singleVars, toolVars, jobVars>>

\* One iteration of the loop of _wait_on_run up to its next request or sleep.
Retrieve ==
    /\ qpc = "wait" /\ wpc = "retrieve"
    /\ IF ~run_valid
       THEN /\ QueryRaises("attribute_error")
            /\ UNCHANGED <<ext_status, run_status, pending_outputs, required_calls, tool_rounds, timed_out>>
       ELSE \/ /\ QueryRaises("retrieve_error")
               /\ UNCHANGED <<ext_status, run_status, pending_outputs, required_calls, tool_rounds, timed_out>>
            \/ \E s \in NextStatuses(ext_status) :
                 /\ s = "requires_action" => tool_rounds < MaxToolRounds
                 /\ ext_status' = s
                 /\ run_status' = s
                 /\ IF s \in TerminalStatuses
                    THEN /\ ReturnFromWait
                         /\ UNCHANGED <<pending_outputs, required_calls, tool_rounds, timed_out>>
                    ELSE IF s = "requires_action"
                    THEN \/ \* required_action.type = "submit_tool_outputs"
                            \E n \in 1..MaxToolCalls :
                            \E behaviours \in [1..n -> HandlerBehaviours] :
                              /\ tool_rounds' = tool_rounds + 1
                              /\ IF \E j \in 1..n : HandlerCall(behaviours[j]).propagates
                                 THEN /\ QueryRaises("handler_error")
                                      /\ UNCHANGED <<pending_outputs, required_calls>>
                                 ELSE /\ required_calls' = ToolCallIds(tool_rounds + 1, n)
                                      /\ pending_outputs' =
                                           BuildOutputs(ToolCallIds(tool_rounds + 1, n),
                                                        behaviours)
                                      /\ wpc' = "submit"
                                      /\ UNCHANGED <<qpc, frames, qresult>>
                              /\ UNCHANGED timed_out
                         \/ \* no required action of that type: the run comes back
                            \* unchanged and the loop continues
                            /\ wpc' = "not_required"
                            /\ UNCHANGED <<qpc, frames, qresult, pending_outputs, required_calls,
                                           tool_rounds, timed_out>>
                    ELSE IF clock - frames[Len(frames)].start > Timeout
                    THEN /\ timed_out' = TRUE
                         /\ wpc' = "cancel"
                         /\ UNCHANGED <<qpc, frames, qresult, pending_outputs, required_calls, tool_rounds>>
                    ELSE /\ wpc' = "sleep"
                         /\ UNCHANGED <<qpc, frames, qresult, pending_outputs, required_calls,
                                        tool_rounds, timed_out>>
    /\ UNCHANGED <<clock, run_valid, thread_created, submissions, cancels, deletes,
                   thread_deleted, responded_on, last_message>>
    /\ UNCHANGED run_ref
    /\ UNCHANGED cancel_failed
    /\ UNCHANGED <<batchVars, singleVars, toolVars, jobVars>>

\* _submit_tool_outputs_if_required without a submit_tool_outputs action:
\* return run, and the continue of the loop, with no timeout check and no sleep.
SubmitNotRequired ==
    /\ qpc = "wait" /\ wpc = "not_required"
    /\ wpc' = "retrieve"
    /\ UNCHANGED <<qpc, frames, clock, run_valid, thread_created, ext_status, run_status,
                   pending_outputs, required_calls, tool_rounds, submissions, cancels, timed_out,
                   deletes, thread_deleted, responded_on, last_message, qresult>>
    /\ UNCHANGED run_ref
    /\ UNCHANGED cancel_failed
    /\ UNCHANGED <<batchVars, singleVars, toolVars, jobVars>>

\* await asyncio.sleep(poll_interval)
PollSleep ==
    /\ qpc = "wait" /\ wpc = "sleep"
    /\ clock' = clock + 1
    /\ wpc' = "retrieve"
    /\ UNCHANGED <<qpc, frames, run_valid, thread_created, ext_status, run_status,
                   pending_outputs, required_calls, tool_rounds, submissions, cancels, timed_out,
                   deletes, thread_deleted, responded_on, last_message, qresult>>
    /\ UNCHANGED run_ref
    /\ UNCHANGED cancel_failed
    /\ UNCHANGED <<batchVars, singleVars, toolVars, jobVars>>

\* _submit_tool_outputs: the request, then the nested _wait_on_run(run).
SubmitToolOutputs ==
    /\ qpc = "wait" /\ wpc = "submit"
    /\ \/ /\ submissions' = submit_tool_outputs(submissions, pending_outputs)
          /\ ext_status' = "queued"
          /\ run_status' = "queued"
          /\ frames' = Append(frames, [start |-> clock])
          /\ wpc' = "retrieve"
          /\ UNCHANGED <<qpc, qresult>>
       \/ /\ QueryRaises("submit_error")
          /\ UNCHANGED <<submissions, ext_status, run_status>>
    /\ pending_outputs' = <<>>
    /\ required_calls' = <<>>
    /\ UNCHANGED <<clock, run_valid, thread_created, tool_rounds, cancels, timed_out,
                   deletes, thread_deleted, responded_on, last_message>>
    /\ UNCHANGED run_ref
    /\ UNCHANGED cancel_failed
    /\ UNCHANGED <<batchVars, singleVars, toolVars, jobVars>>

\* _cancel_run, called on timeout: the request is accepted or it fails.
CancelRun ==
    /\ qpc = "wait" /\ wpc = "cancel"
    /\ cancels' = cancels + 1
    /\ \E api_result \in {"ok", "error"} :
         LET r == cancel_run(api_result)
         IN  /\ cancel_failed' = (cancel_failed \/ ~r.done)
             /\ ext_status' = IF r.done THEN "cancelling" ELSE ext_status
             /\ IF r.raises
                THEN QueryRaises("cancel_error")
                ELSE /\ wpc' = "refetch"
                     /\ UNCHANGED <<qpc, frames, qresult>>
    /\ UNCHANGED <<clock, run_valid, thread_created, run_status,
                   pending_outputs, required_calls, tool_rounds, submissions, timed_out, deletes,
                   thread_deleted, responded_on, last_message>>
    /\ UNCHANGED run_ref
    /\ UNCHANGED <<batchVars, singleVars, toolVars, jobVars>>

\* The retrieve after the cancel, and return run whatever its status.
Refetch ==
    /\ qpc = "wait" /\ wpc = "refetch"
    /\ \/ /\ QueryRaises("retrieve_error")
          /\ UNCHANGED <<ext_status, run_status>>
       \/ \E s \in NextStatuses(ext_status) :
            /\ s = "requires_action" => tool_rounds < MaxToolRounds
            /\ ext_status' = s
            /\ run_status' = s
            /\ ReturnFromWait
    /\ UNCHANGED <<clock, run_valid, thread_created, pending_outputs, required_calls, tool_rounds,
                   submissions, cancels, timed_out, deletes, thread_deleted,
                   responded_on, last_message>>
    /\ UNCHANGED run_ref
    /\ UNCHANGED cancel_failed
    /\ UNCHANGED <<batchVars, singleVars, toolVars, jobVars>>

\* _get_assistant_response on the run that _wait_on_run returned.
GetAssistantResponse ==
    /\ qpc = "respond"
    /\ responded_on' = run_status
    /\ \E message \in IF run_status = "completed"
                       THEN {"text", "empty", "missing", "api_error"}
                       ELSE {"none"} :
         LET r == get_assistant_response(run_status, message)
         IN  /\ last_message' = message
             /\ IF r.returns
                THEN /\ qpc' = "delete"
                     /\ UNCHANGED <<wpc, frames, qresult>>
                ELSE QueryRaises(r.error)
    /\ UNCHANGED <<clock, run_valid, thread_created, ext_status, run_status,
                   pending_outputs, required_calls, tool_rounds, submissions, cancels, timed_out,
                   deletes, thread_deleted>>
    /\ UNCHANGED run_ref
    /\ UNCHANGED cancel_failed
    /\ UNCHANGED <<batchVars, singleVars, toolVars, jobVars>>

\* _delete_thread, then return response.
DeleteThread ==
    /\ qpc = "delete"
    /\ deletes' = deletes + 1
    /\ \E api_result \in {"ok", "error"} :
         LET r == delete_thread(api_result)
         IN  /\ thread_deleted' = (thread_deleted \/ r.done)
             /\ IF r.raises
                THEN QueryRaises("delete_error")
                ELSE /\ qresult' = [kind |-> "returned", error |-> "none"]
                     /\ qpc' = "returned"
                     /\ UNCHANGED <<wpc, frames>>
    /\ UNCHANGED <<clock, run_valid, thread_created, ext_status,
                   run_status, pending_outputs, required_calls, tool_rounds, submissions, cancels,
                   timed_out, responded_on, last_message>>
    /\ UNCHANGED run_ref
    /\ UNCHANGED cancel_failed
    /\ UNCHANGED <<batchVars, singleVars, toolVars, jobVars>>

RunnerInit ==
    /\ qpc = "create"
    /\ wpc = "none"
    /\ frames = <<>>
    /\ clock = 0
    /\ run_valid = FALSE
    /\ run_ref = NoRun
    /\ thread_created = FALSE
    /\ ext_status = "none"
    /\ run_status = "none"
    /\ pending_outputs = <<>>
    /\ required_calls = <<>>
    /\ tool_rounds = 0
    /\ submissions = <<>>
    /\ cancels = 0
    /\ cancel_failed = FALSE
    /\ timed_out = FALSE
    /\ deletes = 0
    /\ thread_deleted = FALSE
    /\ responded_on = "none"
    /\ last_message = "none"
    /\ qresult = NoQResult

\* No query.
RunnerIdle ==
    /\ qpc = "idle"
    /\ wpc = "none"
    /\ frames = <<>>
    /\ clock = 0
    /\ run_valid = FALSE
    /\ run_ref = NoRun
    /\ thread_created = FALSE
    /\ ext_status = "none"
    /\ run_status = "none"
    /\ pending_outputs = <<>>
    /\ required_calls = <<>>
    /\ tool_rounds = 0
    /\ submissions = <<>>
    /\ cancels = 0
    /\ cancel_failed = FALSE
    /\ timed_out = FALSE
    /\ deletes = 0
    /\ thread_deleted = FALSE
    /\ responded_on = "none"
    /\ last_message = "none"
    /\ qresult = NoQResult

RunnerNext ==
    \/ CreateThreadAndRun
    \/ Retrieve
    \/ SubmitNotRequired
    \/ PollSleep
    \/ SubmitToolOutputs
    \/ CancelRun
    \/ Refetch
    \/ GetAssistantResponse
    \/ DeleteThread

\* ------------------------------------- process_halakha_complete, called alone
\* What the storage may answer: the bucket lookup raises, the listing raises,
\* the listing is empty, the public URL request raises, or an image is found.
StorageBehaviours == {"bucket_error", "list_error", "empty", "url_error", "has_image"}

\* get_last_img_supabase: the value it returns (it never raises).
get_last_img_supabase(st) ==
    IF st = "bucket_error" THEN "exception"
    ELSE IF st \in {"list_error", "empty", "url_error"} THEN "None"
    ELSE "tuple"

\* image_url of process_halakha_complete: None unless last_image, else the
\* first element of a tuple result, else the result itself.
ImageUrlFor(last_image, st) ==
    IF ~last_image THEN "None"
    ELSE LET result == get_last_img_supabase(st)
         IN  IF result = "tuple" THEN "url" ELSE result

\* _build_page_properties: whether the page gets an image property.
HasImageProperty(url) == url # "None"

NoPublication == [called |-> FALSE, image_url |-> "None", add_day |-> 0]

\* _process_with_ai: queries_halakha, then queries_post_legende.
SingleQueriesHalakha ==
    /\ spc = "queries_halakha"
    /\ \/ spc' = "queries_post_legende" /\ UNCHANGED sresult
       \/ spc' = "raised" /\ sresult' = "raised"
    /\ UNCHANGED <<sargs, storage, image_url, publication>>
    /\ UNCHANGED <<batchVars, runnerVars, toolVars, jobVars>>

SingleQueriesPostLegende ==
    /\ spc = "queries_post_legende"
    /\ \/ spc' = "last_image" /\ UNCHANGED sresult
       \/ spc' = "raised" /\ sresult' = "raised"
    /\ UNCHANGED <<sargs, storage, image_url, publication>>
    /\ UNCHANGED <<batchVars, runnerVars, toolVars, jobVars>>

\* The optional lookup of the last uploaded image.
SingleLastImage ==
    /\ spc = "last_image"
    /\ image_url' = ImageUrlFor(sargs.last_img, storage)
    /\ spc' = "publish"
    /\ UNCHANGED <<sargs, storage, publication, sresult>>
    /\ UNCHANGED <<batchVars, runnerVars, toolVars, jobVars>>

\* _publish_to_notion_platform(complete_data, add_day_for_notion, image_url).
SinglePublish ==
    /\ spc = "publish"
    /\ publication' = [called |-> TRUE, image_url |-> image_url,
                       add_day |-> sargs.schedule_days]
    /\ \/ spc' = "returned" /\ sresult' = "returned"
       \/ spc' = "raised" /\ sresult' = "raised"
    /\ UNCHANGED <<sargs, storage, image_url>>
    /\ UNCHANGED <<batchVars, runnerVars, toolVars, jobVars>>

\* The form of the endpoint: 0 <= schedule_days <= 100, last_img a boolean.
SingleInit ==
    /\ sargs \in [schedule_days : {0, 2}, last_img : BOOLEAN]
    /\ storage \in StorageBehaviours
    /\ spc = "queries_halakha"
    /\ image_url = "None"
    /\ publication = NoPublication
    /\ sresult = "none"

\* No single-item request.
SingleIdle ==
    /\ sargs = [schedule_days |-> 0, last_img |-> FALSE]
    /\ storage = "empty"
    /\ spc = "idle"
    /\ image_url = "None"
    /\ publication = NoPublication
    /\ sresult = "none"

SingleNext ==
    \/ SingleQueriesHalakha
    \/ SingleQueriesPostLegende
    \/ SingleLastImage
    \/ SinglePublish

\* ------------------------------------ _submit_tool_outputs_if_required alone
\* A tool call: its id, the function it names, its arguments (a JSON text
\* that decodes or not) and what the local function of that name does when it
\* is called.
ToolCalls ==
    [function : {"lookup", "search"},
     arguments : {"json", "not_json"},
     handler : {"returns", "raises"}]

\* The body of the try for one tool call: json.loads(arguments) raises, or
\* the lookup self.tool_functions[func_name] raises, or the function is
\* called; the except clause turns every exception into the error string.
DispatchToolCall(call) ==
    IF call.arguments = "not_json" THEN HandlerCall("raises").output
    ELSE IF ~ToolFunctionsDefined THEN HandlerCall("raises").output
    ELSE HandlerCall(call.handler).output

\* One iteration of the loop over the tool calls.
ToolCallStep ==
    /\ tpc = "loop"
    /\ Len(outputs) < Len(tool_calls)
    /\ LET pos == Len(outputs) + 1
       IN  outputs' = Append(outputs, [tool_call_id |-> pos,
                                       output |-> DispatchToolCall(tool_calls[pos])])
    /\ UNCHANGED <<tool_calls, tpc>>
    /\ UNCHANGED <<batchVars, runnerVars, singleVars, jobVars>>

\* The end of the loop: the outputs are handed to _submit_tool_outputs.
ToolOutputsBuilt ==
    /\ tpc = "loop"
    /\ Len(outputs) = Len(tool_calls)
    /\ tpc' = "built"
    /\ UNCHANGED <<tool_calls, outputs>>
    /\ UNCHANGED <<batchVars, runnerVars, singleVars, jobVars>>

ToolInit ==
    /\ tool_calls \in UNION {[1..n -> ToolCalls] : n \in 1..MaxToolCalls}
    /\ outputs = <<>>
    /\ tpc = "loop"

\* No required action.
ToolIdle ==
    /\ tool_calls = <<>>
    /\ outputs = <<>>
    /\ tpc = "idle"

ToolNext ==
    \/ ToolCallStep
    \/ ToolOutputsBuilt

\* --------------------------------- job API (process/start, status, jobs)
\* The job ids: uuid4 strings, one per started job.
JobIds == 1..MaxJobs

\* JobStatus
JobStatuses == {"pending", "processing", "completed", "failed"}

\* JobResponse(job_id, status, ...).__dict__
JobResponse(job_id, status) == [job_id |-> job_id, status |-> status]

\* Mutant: the assignment writes the status into every entry of the store.
StoreAssign_shared(store, job_id, entry) ==
    [k \in DOMAIN store \cup {job_id} |-> [job_id |-> k, status |-> entry.status]]

\* job_status_store[job_id] = entry
StoreAssign(store, job_id, entry) ==
    [k \in DOMAIN store \cup {job_id} |-> IF k = job_id THEN entry ELSE store[k]]

\* del job_status_store[job_id]
StoreDelete(store, job_id) == [k \in DOMAIN store \ {job_id} |-> store[k]]

\* ProcessingService defines process_halakha_complete, process_halakha_from_json
\* and process_halakhot_from_json, and no process_halakha_for_notion: the call
\* of the background task raises AttributeError.
ProcessHalakhaForNotionDefined == FALSE

InFlight(j) == jpc[j] \in {"queued", "processing", "except", "success"}

\* start_halakha_processing: a new job_id, its pending entry, the task queued.
StartJob(j) ==
    /\ jpc[j] = "none"
    /\ \A k \in JobIds : k < j => jpc[k] # "none"
    /\ job_status_store' = StoreAssign(job_status_store, j, JobResponse(j, "pending"))
    /\ jpc' = [jpc EXCEPT ![j] = "queued"]
    /\ UNCHANGED <<job_error, job_published, deleted_in_flight, last_read>>
    /\ UNCHANGED <<batchVars, runnerVars, singleVars, toolVars>>

\* process_halakha_background up to its await: the processing entry.
TaskBegin(j) ==
    /\ jpc[j] = "queued"
    /\ job_status_store' = StoreAssign(job_status_store, j, JobResponse(j, "processing"))
    /\ jpc' = [jpc EXCEPT ![j] = "processing"]
    /\ UNCHANGED <<job_error, job_published, deleted_in_flight, last_read>>
    /\ UNCHANGED <<batchVars, runnerVars, singleVars, toolVars>>

\* The pipeline call inside the try of the task.
TaskPipeline(j) ==
    /\ jpc[j] = "processing"
    /\ IF ProcessHalakhaForNotionDefined
       THEN \/ /\ job_published' = job_published \cup {j}
               /\ jpc' = [jpc EXCEPT ![j] = "success"]
               /\ UNCHANGED job_error
            \/ /\ job_error' = [job_error EXCEPT ![j] = ServiceError]
               /\ jpc' = [jpc EXCEPT ![j] = "except"]
               /\ UNCHANGED job_published
       ELSE /\ job_error' = [job_error EXCEPT ![j] = "AttributeError"]
            /\ jpc' = [jpc EXCEPT ![j] = "except"]
            /\ UNCHANGED job_published
    /\ UNCHANGED <<job_status_store, deleted_in_flight, last_read>>
    /\ UNCHANGED <<batchVars, runnerVars, singleVars, toolVars>>

\* The last assignment of the task: the completed or the failed entry.
TaskEnd(j) ==
    /\ jpc[j] \in {"success", "except"}
    /\ job_status_store' =
          StoreAssign(job_status_store, j,
                      JobResponse(j, IF jpc[j] = "success" THEN "completed" ELSE "failed"))
    /\ jpc' = [jpc EXCEPT ![j] = "done"]
    /\ UNCHANGED <<job_error, job_published, deleted_in_flight, last_read>>
    /\ UNCHANGED <<batchVars, runnerVars, singleVars, toolVars>>

\* get_job_status: 404 for an unknown job_id, else the entry.
GetJobStatus(j) ==
    /\ last_read' = IF j \in DOMAIN job_status_store
                    THEN [job_id |-> j, found |-> TRUE, entry |-> job_status_store[j]]
                    ELSE [job_id |-> j, found |-> FALSE, entry |-> JobResponse(0, "none")]
    /\ last_read' # last_read
    /\ UNCHANGED <<job_status_store, jpc, job_error, job_published, deleted_in_flight>>
    /\ UNCHANGED <<batchVars, runnerVars, singleVars, toolVars>>

\* cancel_job: 404 for an unknown job_id, else the entry is deleted.
CancelJob(j) ==
    /\ j \in DOMAIN job_status_store
    /\ job_status_store' = StoreDelete(job_status_store, j)
    /\ deleted_in_flight' = IF InFlight(j) THEN deleted_in_flight \cup {j}
                            ELSE deleted_in_flight
    /\ UNCHANGED <<jpc, job_error, job_published, last_read>>
    /\ UNCHANGED <<batchVars, runnerVars, singleVars, toolVars>>

JobInit ==
    /\ job_status_store = <<>>
    /\ jpc = [j \in JobIds |-> "none"]
    /\ job_error = [j \in JobIds |-> "none"]
    /\ job_published = {}
    /\ deleted_in_flight = {}
    /\ last_read = [job_id |-> 0, found |-> FALSE, entry |-> JobResponse(0, "none")]

JobNext ==
    \E j \in JobIds :
        \/ StartJob(j)
        \/ TaskBegin(j)
        \/ TaskPipeline(j)
        \/ TaskEnd(j)
        \/ GetJobStatus(j)
        \/ CancelJob(j)

\* ----------------------------------------------------------- specifications
Init == BatchInit /\ RunnerIdle /\ SingleIdle /\ ToolIdle /\ JobInit

Next == BatchNext

Spec == Init /\ [][Next]_vars

InitRunner == BatchIdle /\ RunnerInit /\ SingleIdle /\ ToolIdle /\ JobInit

NextRunner == RunnerNext

SpecRunner == InitRunner /\ [][NextRunner]_vars

\* The coroutine of the query is never starved: every request is answered and
\* every sleep ends, so a step of the query that can be taken is taken.
SpecRunnerFair == InitRunner /\ [][NextRunner]_vars /\ WF_vars(NextRunner)

InitSingle == BatchIdle /\ RunnerIdle /\ SingleInit /\ ToolIdle /\ JobInit

NextSingle == SingleNext

SpecSingle == InitSingle /\ [][NextSingle]_vars

InitTools == BatchIdle /\ RunnerIdle /\ SingleIdle /\ ToolInit /\ JobInit

NextTools == ToolNext

SpecTools == InitTools /\ [][NextTools]_vars

InitJobs == BatchIdle /\ RunnerIdle /\ SingleIdle /\ ToolIdle /\ JobInit

NextJobs == JobNext

SpecJobs == InitJobs /\ [][NextJobs]_vars

\* =================================================================== claims
\* ------------------------------------------------------ helpers of the claims
\* The item outcomes (success or failed) among the processing details.
ItemOutcomes(res) ==
    SelectSeq(res.processing_details, LAMBDA d : d.status \in {"success", "failed"})

IndicesOf(seq) == {seq[p].index : p \in 1..Len(seq)}

\* The batch call has ended, by a return or by a raise.
BatchEnded == bpc \in {"returned", "raised", "responded"}

\* The range was loaded: the batch has items and a results dictionary.
RangeLoaded == results.status # "none"

\* C1: processed_count = success_count + failed_count in every state of the
\* batch call; once the results have status completed or failed_fast,
\* processed_count + skipped_count is the number of loaded items; skipped_count
\* is 0 (and skipped_items empty) as long as the status is not failed_fast; and
\* no item is both among the processed outcomes and in skipped_items.
C1_Accounting ==
    /\ results.processed_count = results.success_count + results.failed_count
    /\ results.processed_count = Len(ItemOutcomes(results))
    /\ results.skipped_count = Len(results.skipped_items)
    /\ results.status \in {"completed", "failed_fast"} =>
           results.processed_count + results.skipped_count = Len(halakhot_to_process)
    /\ results.status # "failed_fast" =>
           results.skipped_count = 0 /\ results.skipped_items = <<>>
    /\ IndicesOf(ItemOutcomes(results)) \cap IndicesOf(results.skipped_items) = {}

\* C1 witness: a fail-fast abort after a success, with two kinds of entries.
C1_Witness ==
    /\ results.status = "failed_fast"
    /\ results.success_count >= 1
    /\ results.failed_count = 1
    /\ results.skipped_count >= 1

\* C2: with fail_fast_on_max_retries = false nothing is ever skipped and the
\* status is never failed_fast; a loaded batch never raises and never stops
\* before its end; and when it has ended, every loaded item has its success or
\* failed outcome, in order, and the status is completed.
C2_NoFailFastCompletes ==
    ~args.fail_fast_on_max_retries =>
        /\ results.skipped_count = 0
        /\ results.status # "failed_fast"
        /\ RangeLoaded => outcome.kind # "raised"
        /\ (RangeLoaded /\ bpc # "responded") => ENABLED Next
        /\ (RangeLoaded /\ BatchEnded) =>
              /\ outcome.kind = "returned"
              /\ outcome.report.status = "completed"
              /\ Len(outcome.report.processing_details) = Len(halakhot_to_process)
              /\ \A p \in 1..Len(halakhot_to_process) :
                    /\ outcome.report.processing_details[p].index =
                           halakhot_to_process[p].index
                    /\ outcome.report.processing_details[p].status \in {"success", "failed"}

\* C2 witness: a returned report in which an item that exhausted its retries is
\* followed by an item that succeeded.
C2_Witness ==
    /\ ~args.fail_fast_on_max_retries
    /\ outcome.kind = "returned"
    /\ Len(outcome.report.processing_details) >= 2
    /\ outcome.report.processing_details[1].status = "failed"
    /\ outcome.report.processing_details[1].retries_exhausted
    /\ outcome.report.processing_details[2].status = "success"

\* C3: with fail_fast_on_max_retries = true, once the outcome of the item at
\* position k is folded as failed with retries exhausted, every item at a later
\* position is in skipped_items with reason "skipped_due_to_fail_fast" and has
\* no success or failed outcome in the processing details.
C3_FailFastSkipsRest ==
    args.fail_fast_on_max_retries =>
        \A k \in 1..Len(results.processing_details) :
            LET d == results.processing_details[k]
            IN  (d.status = "failed" /\ d.retries_exhausted) =>
                    \A p \in (k + 1)..Len(halakhot_to_process) :
                        /\ \E q \in 1..Len(results.skipped_items) :
                              /\ results.skipped_items[q].index = halakhot_to_process[p].index
                              /\ results.skipped_items[q].reason = "skipped_due_to_fail_fast"
                        /\ halakhot_to_process[p].index \notin IndicesOf(ItemOutcomes(results))

\* C3 witness: the first of three items exhausted its retries and the two
\* others are skipped.
C3_Witness ==
    /\ args.fail_fast_on_max_retries
    /\ Len(halakhot_to_process) = 3
    /\ results.failed_count = 1
    /\ results.processed_count = 1
    /\ results.skipped_count = 2
    /\ results.processing_details[1].retries_exhausted

\* C4: when a batch run with fail_fast_on_max_retries = true has ended after
\* the item at position k exhausted its retries, the caller holds a report
\* with status failed_fast, the index of that item as
\* fail_fast_triggered_at_index, processed_count = k + 1 and the n - k - 1 later
\* items in skipped_items.
C4_FailFastReportYielded ==
    (BatchEnded /\ args.fail_fast_on_max_retries /\ results.failed_count > 0) =>
        /\ outcome.kind = "returned"
        /\ outcome.report.status = "failed_fast"
        /\ outcome.report.fail_fast_triggered_at_index = halakhot_to_process[i + 1].index
        /\ outcome.report.processed_count = i + 1
        /\ Len(outcome.report.skipped_items) = Len(halakhot_to_process) - i - 1

\* C5 as stated: the batch call raises only on a fail-fast abort.
C5_RaisesOnlyOnFailFast ==
    /\ outcome.kind = "raised" => results.status = "failed_fast"
    /\ (BatchEnded /\ results.status # "failed_fast") => outcome.kind = "returned"

\* C5 as amended: once the range is loaded, a run that ends without a
\* fail-fast abort returns its report, with status completed, also when items
\* failed; the call raises the fail-fast error, unwrapped, on a fail-fast
\* abort, and it raises the wrapped critical error exactly when loading the
\* range failed, before any item was attempted.
C5_RaisesOnFailFastOrLoadFailure ==
    /\ (BatchEnded /\ RangeLoaded /\ results.status # "failed_fast") =>
           /\ outcome.kind = "returned"
           /\ outcome.report = results
           /\ outcome.report.status = "completed"
    /\ (BatchEnded /\ results.status = "failed_fast") =>
           /\ outcome.kind = "raised"
           /\ outcome.error = FailFastError
    /\ (BatchEnded /\ ~RangeLoaded) =>
           /\ outcome.kind = "raised"
           /\ outcome.error.critical /\ ~outcome.error.fail_fast_text
           /\ attempts_executed = 0 /\ sleeps = <<>>
    /\ outcome.kind = "raised" => (results.status = "failed_fast" \/ ~RangeLoaded)

\* C5 witness: a report returned although an item failed.
C5_Witness ==
    /\ outcome.kind = "returned"
    /\ outcome.report.failed_count >= 1
    /\ outcome.report.success_count >= 1

\* C6: the retry function hands back a failed outcome, with retries_exhausted,
\* only after max_retries + 1 attempts were executed and all of them failed, and
\* attempts_made is the number of attempts executed.
C6_ExhaustedAfterAllAttempts ==
    (bpc = "fold" /\ processing_result.status = "failed") =>
        /\ processing_result.retries_exhausted
        /\ attempts_executed = args.max_retries + 1
        /\ processing_result.attempts_made = attempts_executed
        /\ Len(processing_result.retry_details) = attempts_executed
        /\ \A a \in 1..attempts_executed :
              processing_result.retry_details[a].attempt = a

\* C6 witness: a failed outcome after a retry.
C6_Witness ==
    /\ bpc = "fold"
    /\ processing_result.status = "failed"
    /\ processing_result.retries_exhausted
    /\ args.max_retries >= 1
    /\ attempts_executed = args.max_retries + 1

\* _query_assistant has ended, by a return or by a raise.
QueryEnded == qpc \in {"returned", "raised"}

\* Every output built or submitted so far.
AllOutputs ==
    {pending_outputs[j] : j \in 1..Len(pending_outputs)} \cup
    UNION {{submissions[k][j] : j \in 1..Len(submissions[k])} : k \in 1..Len(submissions)}

\* C7: _query_assistant returns only when the run it handed to
\* _get_assistant_response is completed and the latest message has text; for a
\* run that is failed, cancelled, expired or in any other status it raises the
\* matching error, and for a completed run with an empty or missing message it
\* raises the empty-response error.
C7_ReturnsOnlyCompletedNonEmpty ==
    /\ qpc \in {"delete", "returned"} =>
           responded_on = "completed" /\ last_message = "text"
    /\ qresult.kind = "returned" => qpc = "returned"
    /\ (responded_on \notin {"none", "completed"}) =>
           /\ qresult.kind = "raised"
           /\ qresult.error =
                 IF responded_on = "failed" THEN "run_failed"
                 ELSE IF responded_on = "cancelled" THEN "run_cancelled"
                 ELSE IF responded_on = "expired" THEN "run_expired"
                 ELSE "unexpected_status"
    /\ (responded_on = "completed" /\ last_message \in {"empty", "missing"}) =>
           qresult = [kind |-> "raised", error |-> "empty_response"]

\* C7 witness: a response returned for a completed run.
C7_Witness ==
    /\ qresult.kind = "returned"
    /\ responded_on = "completed"
    /\ last_message = "text"

\* C8: once a _query_assistant that created a thread has ended, the thread
\* deletion was issued exactly once, whatever the outcome.
C8_ThreadDeletedOnce ==
    (QueryEnded /\ thread_created) => deletes = 1

\* C9: once a _query_assistant whose timeout check fired has ended, a cancel
\* request was issued and the caller holds an error whose cause is cancelled
\* or expired (requests that themselves raise set aside); it never holds a
\* response.
C9_TimeoutYieldsCancelledOrExpired ==
    (QueryEnded /\ timed_out
        /\ qresult.error \notin {"retrieve_error", "submit_error", "messages_error"}) =>
        /\ cancels >= 1
        /\ qresult.kind = "raised"
        /\ qresult.error \in {"run_cancelled", "run_expired"}

\* C10: the exception of a tool handler never leaves _wait_on_run: the output
\* built for the tool call of a handler that raised is the error string, the
\* query has not failed when the outputs are about to be submitted, and an
\* accepted submission is followed by the polling of a nested _wait_on_run.
C10_HandlerErrorBecomesOutput ==
    /\ [](/\ qresult.error # "handler_error"
          /\ \A o \in AllOutputs : o.handler = "raises" => o.output = "error_string"
          /\ wpc = "submit" =>
                (qpc = "wait" /\ qresult.kind = "none" /\ pending_outputs # <<>>))
    /\ [][submissions' # submissions =>
            /\ submissions' = Append(submissions, pending_outputs)
            /\ qpc' = "wait" /\ wpc' = "retrieve"
            /\ Len(frames') = Len(frames) + 1]_vars

\* C10 witness: the error string of a handler that raised was submitted and
\* the runner is polling again.
C10_Witness ==
    /\ submissions # <<>>
    /\ \E o \in AllOutputs : o.handler = "raises" /\ o.output = "error_string"
    /\ qpc = "wait" /\ wpc = "sleep"
    /\ qresult.kind = "none"

\* Every (submission, position) pair of the accepted submissions.
SubmittedAt ==
    {x \in (1..Len(submissions)) \X (1..MaxToolCalls) : x[2] <= Len(submissions[x[1]])}

StageOrder == <<"queries_halakha", "post", "legend", "publish">>

\* C12: the stages of one attempt are awaited in their order; a stage that
\* raised is the last one awaited in the attempt (so publish is not called
\* after it), its exception reaches the retry loop with its class unchanged,
\* and a success outcome exists only when all the stages returned.
C12_StageFailureAborts ==
    /\ Len(calls) <= Len(StageOrder)
    /\ \A p \in 1..Len(calls) :
          /\ calls[p].stage = StageOrder[p]
          /\ calls[p].raised =>
                /\ p = Len(calls)
                /\ stage \in {"backoff", "none"}
                /\ retry_details # <<>>
                /\ retry_details[Len(retry_details)].exception_type = ServiceError
                /\ retry_details[Len(retry_details)].attempt = attempt + 1
                /\ processing_result.status # "success"
    /\ stage = "publish" =>
          (Len(calls) = 3 /\ \A p \in 1..3 : ~calls[p].raised)
    /\ (bpc = "fold" /\ processing_result.status = "success") =>
          (Len(calls) = Len(StageOrder) /\ \A p \in 1..Len(calls) : ~calls[p].raised)

\* C12 witness: the post generation raised after the extraction returned, and
\* the attempt ended there.
C12_Witness ==
    /\ Len(calls) = 2
    /\ ~calls[1].raised
    /\ calls[2].raised
    /\ stage = "backoff"

\* C13: with last_image = true, when the lookup of the last uploaded image
\* fails (the bucket lookup raises, the listing raises, the listing is empty),
\* process_halakha_complete goes on to publish, and the publish call is given
\* no image: image_url is None.
C13_LookupFailureNonFatal ==
    (sargs.last_img /\ storage \in {"bucket_error", "list_error", "empty"}) =>
        /\ spc = "publish" => image_url = "None"
        /\ publication.called =>
              (publication.image_url = "None" /\ ~HasImageProperty(publication.image_url))

\* C14: while the item at position i is attempted or folded, exactly the i
\* items before it have their outcome in the report and no other item has one;
\* the processing details follow the loaded range entry by entry (so their
\* file indices increase); on a fail-fast abort they are the outcomes up to the
\* failed item followed by the skipped entries of the remaining items in range
\* order; and skipped_items, notion_urls and errors keep that order too.
C14_InputOrder ==
    LET details == results.processing_details
        Increasing(seq) == \A a \in 1..Len(seq) : \A b \in 1..Len(seq) :
                               a < b => seq[a].index < seq[b].index
    IN  /\ Len(details) <= Len(halakhot_to_process)
        /\ \A p \in 1..Len(details) : details[p].index = halakhot_to_process[p].index
        /\ Increasing(details)
        /\ Increasing(results.skipped_items)
        /\ Increasing(results.notion_urls)
        /\ Increasing(results.errors)
        /\ bpc \in {"attempt", "fold"} =>
              (Len(details) = i /\ \A p \in 1..i : details[p].status \in {"success", "failed"})
        /\ bpc = "attempt" => processing_result = NoResult
        /\ results.status = "failed_fast" =>
              /\ Len(details) = Len(halakhot_to_process)
              /\ \A p \in 1..i : details[p].status = "success"
              /\ details[i + 1].status = "failed"
              /\ \A p \in (i + 2)..Len(details) : details[p].status = "skipped"
              /\ \A q \in 1..Len(results.skipped_items) :
                    results.skipped_items[q].index = halakhot_to_process[i + 1 + q].index

\* C14 witness: the first item failed and the two others were appended as
\* skipped, in their order.
C14_Witness ==
    /\ Len(results.processing_details) = 3
    /\ results.processing_details[1].status = "failed"
    /\ results.processing_details[2].status = "skipped"
    /\ results.processing_details[3].status = "skipped"
    /\ results.processing_details[2].index < results.processing_details[3].index

\* The batch of Scenario A: three items, max_retries = 3, fail-fast.
ScenarioA ==
    /\ args = [start_index |-> 0, limit_halakhot |-> 3, schedule_days |-> 0,
               max_retries |-> 3, fail_fast_on_max_retries |-> TRUE]
    /\ Len(halakhot_to_process) = 3

\* success_rate is kept in tenths of a percent: 1000 is 100.0.
\* C15 as stated: the returned report has status completed and a success_rate
\* that is exactly success_count / (processed_count - skipped_count) * 100.
C15_SuccessRateExact ==
    outcome.kind = "returned" =>
        /\ outcome.report.status = "completed"
        /\ outcome.report.success_rate
              * (outcome.report.processed_count - outcome.report.skipped_count)
           = outcome.report.success_count * 1000

\* C15 as amended: the returned report has status completed and a success_rate
\* that is success_count / (processed_count - skipped_count) * 100 rounded to
\* one decimal (the nearest tenth, exact when the quotient has one decimal);
\* the rate of a report whose denominator is 0 is 0; and the batch of Scenario
\* A in which every item succeeds returns status completed and rate 100.0.
C15_SuccessRateRounded ==
    /\ outcome.kind = "returned" =>
          LET rep == outcome.report
              d == rep.processed_count - rep.skipped_count
              e == rep.success_rate * d - rep.success_count * 1000
          IN  /\ rep.status = "completed"
              /\ d > 0
              /\ 2 * e <= d /\ 2 * (0 - e) <= d
              /\ (rep.success_count * 1000) % d = 0 => e = 0
    /\ finalize_batch_results(init_batch_results(0, 1, 0, 0, 0)).success_rate = 0
    /\ (ScenarioA /\ BatchEnded /\ results.success_count = 3) =>
          /\ outcome.kind = "returned"
          /\ outcome.report.status = "completed"
          /\ outcome.report.success_rate = 1000

\* C15 witness: Scenario A has returned with its three items succeeded, one
\* of them after retries.
C15_Witness ==
    /\ ScenarioA
    /\ outcome.kind = "returned"
    /\ outcome.report.success_count = 3
    /\ outcome.report.total_retries_used >= 1

\* C16: whatever is raised inside an attempt (the ValueError of the
\* validation, the error of an AI stage or of the publication) is recorded in
\* retry_details and leads to the backoff or to the failed outcome; an attempt
\* never blocks; the function hands the batch loop exactly one outcome per
\* item, with status success or failed; and nothing raised inside an attempt
\* reaches the caller of the batch: the only error of a loaded batch is the
\* fail-fast error that the batch loop raises itself on a failed outcome.
C16_AttemptExceptionsRecovered ==
    /\ bpc = "fold" =>
          /\ processing_result.status \in {"success", "failed"}
          /\ processing_result.index = CurrentItem.index
          /\ Len(ItemOutcomes(results)) = i
    /\ bpc = "attempt" =>
          /\ ENABLED Next
          /\ processing_result = NoResult
          /\ outcome = NoOutcome
          /\ attempts_executed = Len(retry_details) + (IF stage \in {"validate", "backoff"}
                                                       THEN 0 ELSE 1)
    /\ (bpc = "fold" /\ processing_result.status = "failed") =>
          processing_result.exception_type
              = retry_details[Len(retry_details)].exception_type
    /\ bpc \in {"attempt", "fold"} =>
          \A p \in 1..Len(retry_details) :
              retry_details[p].exception_type
                  = IF CurrentItem.blank THEN "ValueError" ELSE ServiceError
    /\ (outcome.kind = "raised" /\ RangeLoaded) =>
          /\ outcome.error = FailFastError
          /\ processing_result.status = "failed"

\* C16 witness: an item succeeded after an attempt that raised, and the next
\* item has its failed outcome after every attempt raised.
C16_Witness ==
    /\ bpc = "fold"
    /\ processing_result.status = "failed"
    /\ Len(processing_result.retry_details) >= 2
    /\ results.processing_details # <<>>
    /\ results.processing_details[1].status = "success"
    /\ results.processing_details[1].attempts_made >= 2

\* The backoff sleeps of the item at loop index k, in order.
BackoffsOf(k) == SelectSeq(sleeps, LAMBDA sl : sl.kind = "backoff" /\ sl.item = k)

\* The delay of the schedule 1, 2, 4, 8, 16 after failed attempt a (0-based).
ScheduledDelay(a) == IF a >= 4 THEN 16 ELSE 2 ^ a

\* C17: the sleep that follows failed attempt a of an item, taken only when a
\* further attempt is allowed, lasts 1, 2, 4, 8 seconds for a = 0..3 and 16
\* seconds for every a >= 4, and attempt a + 1 starts right after it; there are
\* as many backoff sleeps as attempts that were followed by another one, so
\* none after the last failed attempt and none after a success.
C17_BackoffSchedule ==
    /\ [](bpc \in {"attempt", "fold"} =>
             /\ Len(BackoffsOf(i)) = attempt
             /\ \A a \in 0..(attempt - 1) : BackoffsOf(i)[a + 1].seconds = ScheduledDelay(a)
             /\ attempt <= args.max_retries
             /\ stage = "backoff" => attempt < args.max_retries
             /\ bpc = "fold" =>
                   Len(BackoffsOf(i)) = processing_result.attempts_made - 1)
    /\ [][/\ attempt' = attempt + 1 =>
                /\ stage = "backoff" /\ stage' = "validate"
                /\ sleeps' = Append(sleeps, [kind |-> "backoff",
                                             seconds |-> ScheduledDelay(attempt),
                                             item |-> i])
          /\ (sleeps' # sleeps /\ stage = "backoff") => attempt' = attempt + 1
          /\ (sleeps' # sleeps /\ stage # "backoff") =>
                (bpc = "pause" /\ sleeps'[Len(sleeps')].kind = "pause")]_vars

\* C17 witness: an item went through the whole schedule and slept 16 seconds
\* twice, after its attempts 4 and 5.
C17_Witness ==
    /\ bpc = "attempt"
    /\ attempt = 6
    /\ args.max_retries = 6
    /\ Len(BackoffsOf(i)) = 6
    /\ BackoffsOf(i)[5].seconds = 16
    /\ BackoffsOf(i)[6].seconds = 16

\* C18: while an item whose content is blank is processed, no stage of the
\* pipeline (AI call or publication) is ever awaited; every attempt ends at the
\* validation with a ValueError; and its failed outcome comes only after
\* max_retries + 1 attempts with the max_retries backoff sleeps between them.
C18_BlankContentUsesAllRetries ==
    (bpc \in {"attempt", "fold"} /\ CurrentItem.blank) =>
        /\ calls = <<>>
        /\ stage \in {"validate", "backoff", "none"}
        /\ \A p \in 1..Len(retry_details) : retry_details[p].exception_type = "ValueError"
        /\ bpc = "fold" =>
              /\ processing_result.status = "failed"
              /\ processing_result.exception_type = "ValueError"
              /\ attempts_executed = args.max_retries + 1
              /\ Len(retry_details) = args.max_retries + 1
              /\ Len(BackoffsOf(i)) = args.max_retries
              /\ \A a \in 0..(args.max_retries - 1) :
                    BackoffsOf(i)[a + 1].seconds = ScheduledDelay(a)

\* C18 witness: a blank item has its failed outcome after three attempts and
\* two backoff sleeps.
C18_Witness ==
    /\ bpc = "fold"
    /\ CurrentItem.blank
    /\ args.max_retries = 2
    /\ attempts_executed = 3
    /\ Len(BackoffsOf(i)) = 2
    /\ processing_result.status = "failed"

\* C19: the deletion of the thread and the cancel request never raise: a
\* failed deletion still lets _query_assistant return the response it had, a
\* failed cancel still lets _wait_on_run fetch the run again, and the error
\* raised after a failed cancel is the one _get_assistant_response gives for
\* the run it was handed; no error of the query comes from a teardown call.
C19_TeardownBestEffort ==
    /\ [](/\ qresult.error \notin {"delete_error", "cancel_error"}
          /\ deletes >= 1 =>
                (qpc = "returned" /\ qresult = [kind |-> "returned", error |-> "none"])
          /\ (cancel_failed /\ QueryEnded /\ responded_on # "none") =>
                IF get_assistant_response(responded_on, last_message).returns
                THEN qresult.kind = "returned"
                ELSE qresult = [kind |-> "raised",
                                error |-> get_assistant_response(responded_on,
                                                                 last_message).error])
    /\ [][/\ qpc = "delete" =>
                (qpc' = "returned" /\ qresult' = [kind |-> "returned", error |-> "none"])
          /\ wpc = "cancel" =>
                (wpc' = "refetch" /\ qpc' = qpc /\ qresult' = qresult
                    /\ run_status' = run_status)]_vars

\* C19 witness: the cancel request failed, the run was found completed, and
\* the response was returned although the deletion failed too.
C19_Witness ==
    /\ cancel_failed
    /\ deletes = 1
    /\ ~thread_deleted
    /\ qresult.kind = "returned"

\* C20: the output built for a tool call whose arguments decode and whose
\* function has a local handler that returns normally is the value the handler
\* returned, not the error string.
C20_RegisteredHandlerOutput ==
    \A p \in 1..Len(outputs) :
        (tool_calls[p].arguments = "json" /\ tool_calls[p].handler = "returns") =>
            outputs[p].output = "handler_value"

\* C21: the outputs about to be submitted are one per tool call of the
\* required action, in the order of the tool calls; a required action gets at
\* most one request; and a step that submits sends one request holding all
\* these outputs, after which the runner polls the run again.
C21_SingleWholeSubmission ==
    /\ [](/\ Len(submissions) <= tool_rounds
          /\ wpc = "submit" =>
                /\ required_calls # <<>>
                /\ Len(pending_outputs) = Len(required_calls)
                /\ \A j \in 1..Len(required_calls) :
                      pending_outputs[j].tool_call_id = required_calls[j]
                /\ Len(submissions) = tool_rounds - 1)
    /\ [][submissions' # submissions =>
            /\ wpc = "submit"
            /\ Len(submissions') = Len(submissions) + 1
            /\ SubSeq(submissions', 1, Len(submissions)) = submissions
            /\ Len(submissions'[Len(submissions')]) = Len(required_calls)
            /\ \A j \in 1..Len(required_calls) :
                  submissions'[Len(submissions')][j].tool_call_id = required_calls[j]
            /\ qpc' = "wait" /\ wpc' = "retrieve" /\ qresult' = qresult]_vars

\* C21 witness: a required action with two tool calls was answered by one
\* request with two outputs and the runner is polling in the nested wait.
C21_Witness ==
    /\ Len(submissions) = 1
    /\ Len(submissions[1]) = 2
    /\ submissions[1][1].tool_call_id < submissions[1][2].tool_call_id
    /\ tool_rounds = 1
    /\ Len(frames) = 2
    /\ wpc = "sleep"

\* C22: under fail_fast_on_max_retries = true a failed outcome is folded
\* together with the abort: from then on the results have status failed_fast,
\* the index of the failed item and the skipped entries of all remaining items,
\* the fail-fast error is raised, and nothing more is done for the batch: no
\* attempt, no stage of the pipeline, no backoff and no pause, for any item.
C22_FailFastHardStop ==
    /\ [](/\ (args.fail_fast_on_max_retries /\ results.failed_count >= 1) =>
                results.status = "failed_fast"
          /\ results.status = "failed_fast" =>
                /\ bpc \in {"raised", "responded"}
                /\ outcome.kind = "raised"
                /\ outcome.error = FailFastError
                /\ results.fail_fast_triggered_at_index = CurrentItem.index
                /\ results.skipped_count = Len(halakhot_to_process) - i - 1
                /\ \A p \in (i + 2)..Len(halakhot_to_process) :
                      results.processing_details[p].status = "skipped"
                /\ \A q \in 1..Len(sleeps) :
                      sleeps[q].item < i \/ (sleeps[q].item = i /\ sleeps[q].kind = "backoff"))
    /\ [][results.status = "failed_fast" =>
            UNCHANGED <<i, attempt, stage, attempts_executed, calls, sleeps, results,
                        retry_details, processing_result, outcome>>]_vars

\* C22 witness: the second of three items exhausted its retries after the
\* first one succeeded, and the endpoint has answered the abort.
C22_Witness ==
    /\ results.status = "failed_fast"
    /\ Len(halakhot_to_process) = 3
    /\ i = 1
    /\ results.skipped_count = 1
    /\ bpc = "responded"
    /\ response.status_code = 409

\* The pauses between items, in order.
Pauses == SelectSeq(sleeps, LAMBDA sl : sl.kind = "pause")

\* C23 as stated: every pause follows an item that was processed with
\* success.
C23_PauseAfterSuccessOnly ==
    \A q \in 1..Len(Pauses) :
        results.processing_details[Pauses[q].item + 1].status = "success"

\* C23 as amended: every item that is not the last one and whose outcome,
\* success or failed, did not abort the batch is followed by exactly one pause
\* of 2 seconds, taken after its outcome was folded and before the first
\* attempt of the next item; no pause follows the last item or a fail-fast
\* abort.
C23_PauseBetweenItems ==
    /\ Len(Pauses) = i
    /\ \A q \in 1..Len(Pauses) :
          /\ Pauses[q].item = q - 1
          /\ Pauses[q].seconds = 2
          /\ q <= Len(results.processing_details)
          /\ results.processing_details[q].status \in {"success", "failed"}
          /\ q < Len(halakhot_to_process)
    /\ bpc = "pause" =>
          /\ Len(ItemOutcomes(results)) = i + 1
          /\ results.status = "in_progress"
          /\ i < Len(halakhot_to_process) - 1
    /\ (bpc = "item" /\ i > 0) =>
          sleeps[Len(sleeps)] = [kind |-> "pause", seconds |-> 2, item |-> i - 1]
    /\ (BatchEnded /\ RangeLoaded) =>
          Len(Pauses) = Len(ItemOutcomes(results)) - 1

\* C23 witness: a pause followed a failed item and another one followed a
\* successful item.
C23_Witness ==
    /\ Len(Pauses) = 2
    /\ results.processing_details[1].status = "failed"
    /\ results.processing_details[2].status = "success"
    /\ bpc = "item"

C26_WaitTerminates == (qpc = "wait") ~> (qpc # "wait")

\* C27: the item at batch position i is processed with the offset
\* schedule_days + i on every attempt: every stage an attempt awaits gets that
\* offset, the outcome of the k-th item carries schedule_days + k - 1 whatever
\* happened to the items before it, and the offsets of the published pages
\* increase strictly.
C27_ScheduleOffsets ==
    /\ bpc \in {"attempt", "fold"} =>
          \A p \in 1..Len(calls) : calls[p].add_day = args.schedule_days + i
    /\ RangeLoaded =>
          /\ \A k \in 1..Len(ItemOutcomes(results)) :
                /\ ItemOutcomes(results)[k].index = halakhot_to_process[k].index
                /\ ItemOutcomes(results)[k].scheduled_days = args.schedule_days + k - 1
          /\ \A p \in 1..Len(results.notion_urls) :
             \A q \in 1..Len(results.notion_urls) :
                p < q => results.notion_urls[p].scheduled_days
                            < results.notion_urls[q].scheduled_days

\* C27 witness: the first item failed after a retry and the second one is in
\* its second attempt, about to be published with the offset schedule_days + 1.
C27_Witness ==
    /\ RangeLoaded
    /\ args.schedule_days = 2
    /\ Len(ItemOutcomes(results)) = 1
    /\ ItemOutcomes(results)[1].status = "failed"
    /\ Len(ItemOutcomes(results)[1].retry_details) = 2
    /\ bpc = "attempt" /\ i = 1 /\ attempt = 1
    /\ stage = "publish"
    /\ Len(calls) = 3
    /\ calls[3].add_day = 3

\* The outcomes _process_single_halakha_with_retry has returned so far: the
\* folded ones and the one about to be folded.
ReturnedOutcomes ==
    IF bpc = "fold" THEN Append(ItemOutcomes(results), processing_result)
    ELSE ItemOutcomes(results)

\* C28: in every outcome of _process_single_halakha_with_retry, retry_details
\* has one entry per failed attempt, numbered 1, 2, ... in order; a success has
\* attempts_made = len(retry_details) + 1, a failure attempts_made =
\* len(retry_details); and the attempts that ran are exactly those counted.
C28_RetryDetailsPerFailedAttempt ==
    /\ \A k \in 1..Len(ReturnedOutcomes) :
          LET d == ReturnedOutcomes[k]
          IN  /\ \A p \in 1..Len(d.retry_details) : d.retry_details[p].attempt = p
              /\ d.status = "success" => d.attempts_made = Len(d.retry_details) + 1
              /\ d.status = "failed" => d.attempts_made = Len(d.retry_details)
    /\ bpc = "fold" =>
          /\ processing_result.attempts_made = attempts_executed
          /\ processing_result.retry_details = retry_details

\* C28 witness: one item succeeded on its retry and the next one failed both
\* of its attempts.
C28_Witness ==
    /\ Len(ReturnedOutcomes) = 2
    /\ ReturnedOutcomes[1].status = "success"
    /\ ReturnedOutcomes[1].attempts_made = 2
    /\ Len(ReturnedOutcomes[1].retry_details) = 1
    /\ ReturnedOutcomes[2].status = "failed"
    /\ ReturnedOutcomes[2].attempts_made = 2
    /\ Len(ReturnedOutcomes[2].retry_details) = 2
    /\ bpc = "fold"

\* C29: over all attempts of one batch item the publish succeeds at most once:
\* a publish that returns ends the retry loop of the item with a success
\* outcome, no item is published twice, and when the batch has ended the
\* number of publishes that returned equals success_count.
C29_PublishAtMostOnce ==
    /\ [](/\ \A p \in 1..Len(published) : \A q \in 1..Len(published) :
                published[p].item = published[q].item => p = q
          /\ (BatchEnded /\ RangeLoaded) => Len(published) = results.success_count)
    /\ [][published' # published =>
            /\ Len(published') = Len(published) + 1
            /\ bpc' = "fold"
            /\ processing_result'.status = "success"
            /\ processing_result'.index = CurrentItem.index]_vars

\* C29 witness: a batch ended with two published items, the first one
\* published on its second attempt, and one failed item.
C29_Witness ==
    /\ BatchEnded /\ RangeLoaded
    /\ results.success_count = 2
    /\ results.failed_count = 1
    /\ Len(published) = 2
    /\ published[1].attempt = 2

\* C30: with fail_fast_on_max_retries, failed_count never exceeds 1, and when
\* it is 1 the failed item is the last item that was processed: every item
\* before it succeeded and no item is begun after it.
C30_FailFastSingleFailure ==
    (RangeLoaded /\ args.fail_fast_on_max_retries) =>
        /\ results.failed_count <= 1
        /\ results.failed_count = 1 =>
              LET done == ItemOutcomes(results)
              IN  /\ done[Len(done)].status = "failed"
                  /\ done[Len(done)].index = halakhot_to_process[i + 1].index
                  /\ \A k \in 1..(Len(done) - 1) : done[k].status = "success"
                  /\ results.processed_count = Len(done)
                  /\ bpc \in {"raised", "responded"}

\* C30 witness: a fail-fast batch has folded its one failure after a success,
\* with an item left unprocessed.
C30_Witness ==
    /\ RangeLoaded /\ args.fail_fast_on_max_retries
    /\ results.failed_count = 1
    /\ results.success_count = 1
    /\ Len(halakhot_to_process) = 3
    /\ i = 1
    /\ bpc = "raised"

=============================================================================
